---- MODULE Spec2Model ----
(***************************************************************************)
(* A model of the rich-text link interaction of the block editor:          *)
(*   - getFormatBoundary, the boundary locator (format-library link UI);   *)
(*   - InlineLinkUI (onChangeLink, removeLink, pending settings);          *)
(*   - LinkControl (editing state, submit, suggestion selection).          *)
(*                                                                         *)
(* JavaScript values are encoded uniformly as sequences of strings so that *)
(* any two of them can be compared: a string is the sequence of its        *)
(* one-character strings, undefined is <<"undefined">>, true and false are *)
(* <<"true">> and <<"false">>.  Array indices are 0-based as in the code;  *)
(* the operator At reads an array the way JavaScript does.                 *)
(***************************************************************************)
EXTENDS Integers, Sequences, FiniteSets, TLC

\* ------------------------------------------------------------------ bounds
\* Longest text of an initial rich-text value.
MaxLen == 3

\* ------------------------------------------------------- JavaScript values
Undefined == <<"undefined">>
True == <<"true">>
False == <<"false">>

\* The null of { start: null, end: null }; never a valid index.
Null == -1

\* Boolean coercion of a JS value: undefined, false and '' are falsy.
Truthy(x) == x # Undefined /\ x # False /\ x # <<>>

Min(a, b) == IF a < b THEN a ELSE b
Max(a, b) == IF a > b THEN a ELSE b

\* array[i] with a 0-based index: undefined outside the array.  A hole of a
\* sparse formats array and an empty per-character list behave alike in all
\* the code modelled here, so both are the empty sequence.
At(array, i) == IF i >= 0 /\ i < Len(array) THEN array[i + 1] ELSE <<>>

\* Array.prototype.slice( from, to ) with 0-based, clamped bounds.
Slice(array, from, to) ==
    LET f == Max(0, Min(from, Len(array)))
        t == Max(0, Min(to, Len(array)))
    IN  IF f >= t THEN <<>> ELSE SubSeq(array, f + 1, t)

\* ---------------------------------------------------------------- formats
\* A format instance is an object: ref is its identity (two instances are
\* === exactly when their refs are equal), type and attributes its content.
NoAttributes ==
    [url |-> Undefined, type |-> Undefined, id |-> Undefined,
     target |-> Undefined, rel |-> Undefined]

NoFormat == [ref |-> 0, type |-> "none", attributes |-> NoAttributes]

LINK == "core/link"
BOLD == "core/bold"

\* Mutant of SameInstance: structural equality instead of identity.
SameInstance_structural(f, g) ==
    f.ref # 0 /\ f.type = g.type /\ f.attributes = g.attributes

\* format1 === format2
SameInstance(f, g) == f.ref # 0 /\ f.ref = g.ref

\* ------------------------------------------------------ getFormatBoundary
\* lodash find( formatsAtIndex, { type } ): the first format of that type.
RECURSIVE FindFrom(_, _, _)
FindFrom(list, type, k) ==
    IF k > Len(list) THEN NoFormat
    ELSE IF list[k].type = type THEN list[k]
    ELSE FindFrom(list, type, k + 1)

\* Mutant of FindByType: the type is not compared, any format is found.
FindByType_anyType(list, type) == IF list = <<>> THEN NoFormat ELSE list[1]

FindByType(list, type) == FindFrom(list, type, 1)

\* Array.prototype.indexOf( startFormat ), 0-based, by identity.
RECURSIVE IndexOfFrom(_, _, _)
IndexOfFrom(list, f, k) ==
    IF k > Len(list) THEN -1
    ELSE IF SameInstance(list[k], f) THEN k - 1
    ELSE IndexOfFrom(list, f, k + 1)

IndexOf(list, f) == IndexOfFrom(list, f, 1)

\* newFormats[ i ] && newFormats[ i ][ index ] === startFormat
MatchesAt(formats, i, index, startFormat) ==
    /\ At(formats, i) # <<>>
    /\ index < Len(At(formats, i))
    /\ SameInstance(At(formats, i)[index + 1], startFormat)

RECURSIVE WalkBackwards(_, _, _, _)
WalkBackwards(formats, startIndex, index, startFormat) ==
    IF MatchesAt(formats, startIndex, index, startFormat)
    THEN WalkBackwards(formats, startIndex - 1, index, startFormat)
    ELSE startIndex

RECURSIVE WalkForwards(_, _, _, _)
WalkForwards(formats, endIndex, index, startFormat) ==
    IF MatchesAt(formats, endIndex, index, startFormat)
    THEN WalkForwards(formats, endIndex + 1, index, startFormat)
    ELSE endIndex

NullBoundary == [start |-> Null, end |-> Null]

\* Mutant of getFormatBoundary: the forward walk starts from startIndex.
getFormatBoundary_walksFromStart(v, type, startIndex, endIndex) ==
    LET startFormat == FindByType(At(v.formats, startIndex), type)
    IN  IF startFormat = NoFormat THEN NullBoundary
        ELSE LET index == IndexOf(At(v.formats, startIndex), startFormat)
                 s == WalkBackwards(v.formats, startIndex, index, startFormat)
                 e == WalkForwards(v.formats, startIndex + 1, index, startFormat)
             IN  [start |-> s + 1, end |-> e]

getFormatBoundary(v, type, startIndex, endIndex) ==
    LET startFormat == FindByType(At(v.formats, startIndex), type)
    IN  IF startFormat = NoFormat THEN NullBoundary
        ELSE LET index == IndexOf(At(v.formats, startIndex), startFormat)
                 s == WalkBackwards(v.formats, startIndex, index, startFormat)
                 e == WalkForwards(v.formats, endIndex + 1, index, startFormat)
             IN  [start |-> s + 1, end |-> e]

\* ----------------------------------------------------- the rich-text library
\* The value-in/value-out operations InlineLinkUI imports from
\* @wordpress/rich-text.  A value is [text, formats, start, end,
\* activeFormats]; the replacements array is always empty here and left out.

\* start or end of a value that has no selection (made by create or slice).
UndefinedIndex == -2

\* activeFormats of a value that has no activeFormats property.
UndefinedFormats == <<NoFormat>>

isCollapsed(v) == v.start = v.end

\* isFormatEqual: same type and same attributes.
isFormatEqual(f, g) ==
    f # NoFormat /\ g # NoFormat /\ f.type = g.type /\ f.attributes = g.attributes

\* normaliseFormats: from left to right, a format equal to the one at the same
\* list position of the previous character becomes that very instance.
RECURSIVE NormaliseFrom(_, _, _)
NormaliseFrom(fs, k, done) ==
    IF k > Len(fs) THEN done
    ELSE LET prev == IF k = 1 THEN <<>> ELSE done[k - 1]
             this == [j \in 1..Len(fs[k]) |->
                        IF j <= Len(prev) /\ isFormatEqual(fs[k][j], prev[j])
                        THEN prev[j] ELSE fs[k][j]]
         IN  NormaliseFrom(fs, k + 1, Append(done, this))

normaliseFormats(v) == [v EXCEPT !.formats = NormaliseFrom(v.formats, 1, <<>>)]

\* create( { text } )
create(text) ==
    [text |-> text, formats |-> [i \in 1..Len(text) |-> <<>>],
     start |-> UndefinedIndex, end |-> UndefinedIndex,
     activeFormats |-> UndefinedFormats]

\* An index argument as Array.prototype.slice reads it: null is 0.
ToIndex(i) == IF i = Null THEN 0 ELSE i

\* slice( value, startIndex, endIndex ): text and formats of the range only.
slice(v, s, e) ==
    [text |-> Slice(v.text, ToIndex(s), ToIndex(e)),
     formats |-> Slice(v.formats, ToIndex(s), ToIndex(e)),
     start |-> UndefinedIndex, end |-> UndefinedIndex,
     activeFormats |-> UndefinedFormats]

\* String.prototype.indexOf: offset of the first occurrence, -1 when none.
RECURSIVE IndexOfSubFrom(_, _, _)
IndexOfSubFrom(text, pattern, k) ==
    IF k + Len(pattern) > Len(text) THEN -1
    ELSE IF Slice(text, k, k + Len(pattern)) = pattern THEN k
    ELSE IndexOfSubFrom(text, pattern, k + 1)

IndexOfSub(text, pattern) == IndexOfSubFrom(text, pattern, 0)

\* The body of replace( value, pattern, replacement ) for a string pattern:
\* String.prototype.replace rewrites the FIRST occurrence of pattern; the
\* selection moves to the end of the new text only `if ( start )`.
ReplaceAt(v, pattern, newText, newFormats) ==
    LET offset == IndexOfSub(v.text, pattern)
        moved == v.start # UndefinedIndex /\ v.start # 0
    IN  IF offset < 0 THEN normaliseFormats(v)
        ELSE normaliseFormats(
               [v EXCEPT
                  !.text = Slice(v.text, 0, offset) \o newText
                           \o Slice(v.text, offset + Len(pattern), Len(v.text)),
                  !.formats = Slice(v.formats, 0, offset) \o newFormats
                           \o Slice(v.formats, offset + Len(pattern), Len(v.formats)),
                  !.start = IF moved THEN offset + Len(newText) ELSE v.start,
                  !.end = IF moved THEN offset + Len(newText) ELSE v.end])

\* replace( value, pattern, newText ) with a string replacement: the new
\* characters take the formats of the first replaced character.
replaceWithText(v, pattern, newText) ==
    LET offset == IndexOfSub(v.text, pattern)
    IN  ReplaceAt(v, pattern, newText,
                  [i \in 1..Len(newText) |-> At(v.formats, offset)])

\* replace( value, pattern, replacementValue ) with a rich-text replacement.
replaceWithValue(v, pattern, r) == ReplaceAt(v, pattern, r.text, r.formats)

\* lodash reject( activeFormats, { type } ); reject( undefined ) is [].
RejectType(list, type) ==
    IF list = UndefinedFormats THEN <<>>
    ELSE SelectSeq(list, LAMBDA f : f.type # type)

\* list.splice( position, 0, format )
InsertAt(list, position, format) ==
    Slice(list, 0, position) \o <<format>> \o Slice(list, position, Len(list))

\* applyFormat( value, format, startIndex, endIndex )
applyFormat(v, format, s, e) ==
    LET fs == v.formats
        filtered(i) == RejectType(At(fs, i), format.type)
        lengths == { Len(filtered(i)) : i \in s..(e - 1) }
        position == CHOOSE n \in lengths : \A m \in lengths : n <= m
        startFormat == FindByType(At(fs, s), format.type)
        index == IndexOf(At(fs, s), startFormat)
        from == WalkBackwards(fs, s, index, startFormat) + 1
        to == WalkForwards(fs, e + 1, index, startFormat)
        newFormats ==
            IF s = e
            THEN IF startFormat = NoFormat THEN fs
                 ELSE [i \in 1..Len(fs) |->
                         IF from <= i - 1 /\ i - 1 < to
                         THEN [fs[i] EXCEPT ![index + 1] = format] ELSE fs[i]]
            ELSE [i \in 1..Len(fs) |->
                    IF s <= i - 1 /\ i - 1 < e
                    THEN InsertAt(filtered(i - 1), position, format) ELSE fs[i]]
    IN  normaliseFormats(
          [v EXCEPT !.formats = newFormats,
                    !.activeFormats =
                        RejectType(v.activeFormats, format.type) \o <<format>>])

\* insert( value, valueToInsert ) over value.start..value.end
insert(v, toInsert) ==
    LET index == v.start + Len(toInsert.text)
    IN  normaliseFormats(
          [text |-> Slice(v.text, 0, v.start) \o toInsert.text
                    \o Slice(v.text, v.end, Len(v.text)),
           formats |-> Slice(v.formats, 0, v.start) \o toInsert.formats
                    \o Slice(v.formats, v.end, Len(v.formats)),
           start |-> index, end |-> index,
           activeFormats |-> UndefinedFormats])

\* lodash find( formatsAtIndex, format ): a format with that content.
Has(list, format) == \E k \in 1..Len(list) : isFormatEqual(list[k], format)

RECURSIVE RemoveBackwards(_, _, _)
RemoveBackwards(fs, i, format) ==
    IF Has(At(fs, i), format) THEN RemoveBackwards(fs, i - 1, format) ELSE i

RECURSIVE RemoveForwards(_, _, _)
RemoveForwards(fs, i, format) ==
    IF Has(At(fs, i), format) THEN RemoveForwards(fs, i + 1, format) ELSE i

\* removeFormat( value, formatType ) over value.start..value.end: a collapsed
\* selection is widened to the edges of the format at the caret.
removeFormat(v, type) ==
    LET fs == v.formats
        format == FindByType(At(fs, v.start), type)
        from == IF v.start # v.end THEN v.start
                ELSE IF format = NoFormat THEN 0
                ELSE RemoveBackwards(fs, v.start, format) + 1
        to == IF v.start # v.end THEN v.end
              ELSE IF format = NoFormat THEN 0
              ELSE RemoveForwards(fs, v.end + 1, format)
    IN  normaliseFormats(
          [v EXCEPT !.formats =
                       [i \in 1..Len(fs) |->
                          IF from <= i - 1 /\ i - 1 < to
                          THEN RejectType(fs[i], type) ELSE fs[i]],
                    !.activeFormats = RejectType(v.activeFormats, type)])

\* getActiveFormats( value ): the activeFormats of a collapsed value when it
\* has them, else the shorter of the lists around the caret; the formats at
\* start for a selection.
getActiveFormats(v) ==
    IF v.start = UndefinedIndex THEN <<>>
    ELSE IF v.start = v.end
    THEN IF v.activeFormats # UndefinedFormats THEN v.activeFormats
         ELSE IF Len(At(v.formats, v.start - 1)) < Len(At(v.formats, v.start))
              THEN At(v.formats, v.start - 1)
              ELSE At(v.formats, v.start)
    ELSE At(v.formats, v.start)

\* getActiveFormat( value, 'core/link' )
getActiveFormat(v, type) == FindByType(getActiveFormats(v), type)

\* ----------------------------------------------------------- URLs and links
\* Enumerated strings (attribute tokens, announcements) are one-element
\* sequences; texts and URLs are sequences of characters.
BLANK == <<"_blank">>
REL == <<"noreferrer noopener">>
HTTP == <<"h", "t", "t", "p", ":", "/", "/">>

Letters ==
    {"a", "b", "c", "d", "e", "f", "g", "h", "i", "j", "k", "l", "m", "n",
     "o", "p", "q", "r", "s", "t", "u", "v", "w", "x", "y", "z"}

\* The index (1-based) of the first ":" of url, 0 when there is none.
RECURSIVE ColonFrom(_, _)
ColonFrom(url, k) ==
    IF k > Len(url) THEN 0 ELSE IF url[k] = ":" THEN k ELSE ColonFrom(url, k + 1)

\* USABLE_HREF_REGEXP: /^(?:[a-z]+:|#|\?|\.|\/)/i
UsableHref(url) ==
    /\ url # <<>>
    /\ \/ url[1] \in {"#", "?", ".", "/"}
       \/ /\ ColonFrom(url, 1) > 1
          /\ \A j \in 1..(ColonFrom(url, 1) - 1) : url[j] \in Letters

isEmail(url) == \E k \in 1..Len(url) : url[k] = "@"

\* prependHTTP( url ): 'http://' before a URL that has no usable start; an
\* undefined or empty URL is returned as it is.
prependHTTP(url) ==
    IF ~ Truthy(url) THEN url
    ELSE IF ~ UsableHref(url) /\ ~ isEmail(url) THEN HTTP \o url
    ELSE url

\* isValidHref( href ): not empty; with a protocol, the protocol is made of
\* letters and an http(s) URL goes on with '//' and a host character.
isValidHref(href) ==
    /\ Truthy(href)
    /\ LET c == ColonFrom(href, 1)
       IN  c > 1 =>
             /\ \A j \in 1..(c - 1) : href[j] \in Letters
             /\ (Slice(href, 0, 4) = <<"h", "t", "t", "p">>) =>
                   /\ Slice(href, c, c + 2) = <<"/", "/">>
                   /\ Len(href) > c + 2
                   /\ href[c + 3] # "/"

\* createLinkFormat( { url, type, id, opensInNewWindow } ): a new instance.
createLinkFormat(url, type, id, opensInNewWindow, ref) ==
    [ref |-> ref, type |-> LINK,
     attributes |->
        [url |-> url,
         type |-> IF Truthy(type) THEN type ELSE Undefined,
         id |-> IF Truthy(id) THEN id ELSE Undefined,
         target |-> IF Truthy(opensInNewWindow) THEN BLANK ELSE Undefined,
         rel |-> IF Truthy(opensInNewWindow) THEN REL ELSE Undefined]]

\* stripHTML( text ): the text without its tags.
RECURSIVE StripFrom(_, _, _)
StripFrom(text, k, inTag) ==
    IF k > Len(text) THEN <<>>
    ELSE IF inTag THEN StripFrom(text, k + 1, text[k] # ">")
    ELSE IF text[k] = "<" /\ (\E j \in (k + 1)..Len(text) : text[j] = ">")
    THEN StripFrom(text, k + 1, TRUE)
    ELSE <<text[k]>> \o StripFrom(text, k + 1, FALSE)

stripHTML(text) == StripFrom(text, 1, FALSE)

\* ------------------------------------------------------------ link values
\* A link value object: keys holds the properties the object has; a property
\* it does not have reads undefined.  UndefinedObject is undefined itself.
EmptyObject ==
    [defined |-> TRUE, keys |-> {}, url |-> Undefined, type |-> Undefined,
     id |-> Undefined, opensInNewTab |-> Undefined, text |-> Undefined,
     title |-> Undefined]

UndefinedObject == [EmptyObject EXCEPT !.defined = FALSE]

\* { ...a, ...b }
Spread(a, b) ==
    [defined |-> TRUE,
     keys |-> a.keys \cup b.keys,
     url |-> IF "url" \in b.keys THEN b.url ELSE a.url,
     type |-> IF "type" \in b.keys THEN b.type ELSE a.type,
     id |-> IF "id" \in b.keys THEN b.id ELSE a.id,
     opensInNewTab |->
        IF "opensInNewTab" \in b.keys THEN b.opensInNewTab ELSE a.opensInNewTab,
     text |-> IF "text" \in b.keys THEN b.text ELSE a.text,
     title |-> IF "title" \in b.keys THEN b.title ELSE a.title]

\* ------------------------------------------------------------ InlineLinkUI
\* The props isActive and activeAttributes, which the format's edit component
\* takes from the active format of the value.
isActiveOf(v) == getActiveFormat(v, LINK) # NoFormat

activeAttributesOf(v) ==
    IF isActiveOf(v) THEN getActiveFormat(v, LINK).attributes ELSE NoAttributes

\* textStart and textEnd: the selection, or the link boundary around a caret.
textStartOf(v) ==
    IF isCollapsed(v) THEN getFormatBoundary(v, LINK, v.start, v.end).start
    ELSE v.start

textEndOf(v) ==
    IF isCollapsed(v) THEN getFormatBoundary(v, LINK, v.start, v.end).end
    ELSE v.end

richLinkTextValueOf(v) == slice(v, textStartOf(v), textEndOf(v))

textOf(v) == stripHTML(richLinkTextValueOf(v).text)

\* linkValue: the active link's attributes and text under the pending settings.
linkValueOf(v, pending) ==
    Spread([defined |-> TRUE,
            keys |-> {"url", "type", "id", "opensInNewTab", "text"},
            url |-> activeAttributesOf(v).url,
            type |-> activeAttributesOf(v).type,
            id |-> activeAttributesOf(v).id,
            opensInNewTab |->
                IF activeAttributesOf(v).target = BLANK THEN True ELSE False,
            text |-> textOf(v),
            title |-> Undefined],
           pending)

\* Mutant of mergeNextValue: the pending settings are not merged in.
mergeNextValue_withoutPending(pending, payload) == Spread(EmptyObject, payload)

\* onChangeLink: nextValue = { ...nextLinkValue, ...nextValue }
mergeNextValue(pending, payload) == Spread(pending, payload)

\* Mutant of didToggleSetting: the URLs are not compared.
didToggleSetting_ignoringUrl(linkValue, nextValue) ==
    linkValue.opensInNewTab # nextValue.opensInNewTab

\* didToggleSetting: the setting differs and the URL does not.
didToggleSetting(linkValue, nextValue) ==
    /\ linkValue.opensInNewTab # nextValue.opensInNewTab
    /\ linkValue.url = nextValue.url

\* Mutant of didToggleSettingForNewLink: every setting toggle is deferred.
didToggleSettingForNewLink_anyToggle(linkValue, nextValue) ==
    didToggleSetting(linkValue, nextValue)

\* Mutant of didToggleSettingForNewLink: the test of the URL is inverted.
didToggleSettingForNewLink_withUrl(linkValue, nextValue) ==
    didToggleSetting(linkValue, nextValue) /\ nextValue.url # Undefined

didToggleSettingForNewLink(linkValue, nextValue) ==
    didToggleSetting(linkValue, nextValue) /\ nextValue.url = Undefined

\* The link format onChangeLink builds from the merged value.
linkFormatOf(nextValue, newUrl, ref) ==
    createLinkFormat(newUrl, nextValue.type,
                     IF nextValue.id # Undefined THEN nextValue.id ELSE Undefined,
                     nextValue.opensInNewTab, ref)

\* Mutant of newTextOf: falls back to the URL as submitted, not normalized.
newTextOf_submittedUrl(nextValue, newUrl) ==
    IF Truthy(nextValue.text) THEN nextValue.text
    ELSE IF Truthy(nextValue.title) THEN nextValue.title
    ELSE nextValue.url

\* newText = nextValue?.text || nextValue.title || newUrl
newTextOf(nextValue, newUrl) ==
    IF Truthy(nextValue.text) THEN nextValue.text
    ELSE IF Truthy(nextValue.title) THEN nextValue.title
    ELSE newUrl

\* No selected text and no active format: insert the new link at the caret.
insertNewLink(v, newText, linkFormat) ==
    insert(v, applyFormat(create(newText), linkFormat, 0, Len(newText)))

\* A selection or an active format: replace the text, apply the link format,
\* put the result in place of the text in the full value, collapse the
\* selection and clear the active formats.
replaceLinkText(v, newText, linkFormat) ==
    LET inner == applyFormat(
                   replaceWithText(richLinkTextValueOf(v), textOf(v), newText),
                   linkFormat, 0, Len(newText))
        outer == replaceWithValue(v, textOf(v), inner)
    IN  [outer EXCEPT !.start = outer.end, !.activeFormats = <<>>]

LINK_REMOVED == <<"Link removed.">>
LINK_WARNING ==
    <<"Warning: the link has been inserted but may have errors. Please test it.">>
LINK_EDITED == <<"Link edited.">>
LINK_INSERTED == <<"Link inserted.">>

\* Mutant of announcementOf: the insert/edit distinction comes first.
announcementOf_activeFirst(newUrl, isActive) ==
    IF isActive THEN LINK_EDITED
    ELSE IF ~ isValidHref(newUrl) THEN LINK_WARNING
    ELSE LINK_INSERTED

\* The message onChangeLink speaks after a commit.
announcementOf(newUrl, isActive) ==
    IF ~ isValidHref(newUrl) THEN LINK_WARNING
    ELSE IF isActive THEN LINK_EDITED
    ELSE LINK_INSERTED

\* ------------------------------------------------------------------ state
VARIABLES
    value,       \* the rich-text value: text, formats, start, end, activeFormats
    pc,          \* position of the boundary-locator harness
    startIndex,  \* getFormatBoundary's startIndex argument of the last call
    endIndex,    \* getFormatBoundary's endIndex argument of the last call
    boundary,    \* what that call returned
    reboundary,  \* what the call on the returned range returned
    addingLink,          \* the edit component's addingLink state
    nextLinkValue,       \* InlineLinkUI: the pending settings
    isEditingLink,       \* LinkControl: editing state
    internalInputValue,  \* LinkControl: the URL input
    internalTextValue,   \* LinkControl: the text input
    commits,             \* number of onChange calls so far
    last,                \* what the last event did (calls made, messages spoken)
    controlValue,        \* LinkControl on its own: the value prop
    controlOnRemove,     \* LinkControl on its own: an onRemove prop is passed
    isCreatingPage,      \* LinkControl: useCreatePage is creating a page
    isParentBlockNavigation,  \* PageListEdit: the block has a core/navigation parent
    allowConvertToLinks,      \* PageListEdit: the Edit option is enabled
    isOpen,                   \* PageListEdit: the modal was opened
    reported,                 \* PageListEdit: the page count of the last response
    requests                  \* PageListEdit: page counts of the fetches in flight

boundaryVars == <<pc, startIndex, endIndex, boundary, reboundary>>
linkVars ==
    <<addingLink, nextLinkValue, isEditingLink, internalInputValue,
      internalTextValue, commits, last>>
controlVars == <<controlValue, controlOnRemove, isCreatingPage>>
pageVars ==
    <<isParentBlockNavigation, allowConvertToLinks, isOpen, reported, requests>>
vars == <<value, boundaryVars, linkVars, controlVars, pageVars>>

\* No LinkControl is rendered on its own.
NoControl ==
    /\ controlValue = UndefinedObject
    /\ controlOnRemove = FALSE
    /\ isCreatingPage = FALSE

\* No response has come yet.
NoReport == -1

\* No page list block is rendered.
NoPageList ==
    /\ isParentBlockNavigation = FALSE
    /\ allowConvertToLinks = FALSE
    /\ isOpen = FALSE
    /\ reported = NoReport
    /\ requests = <<>>

\* What an event that calls neither onChangeLink nor removeLink leaves in last.
NoCall(op, v) ==
    [op |-> op, called |-> "none", payload |-> UndefinedObject,
     nextValue |-> UndefinedObject, linkValue |-> UndefinedObject,
     pending |-> UndefinedObject, before |-> v, wasActive |-> FALSE,
     wasAdding |-> FALSE, toggled |-> FALSE, deferred |-> FALSE,
     onChange |-> <<>>, stopAddingLink |-> 0, spoken |-> <<>>,
     linkFormat |-> NoFormat, newUrl |-> Undefined, newText |-> Undefined,
     threw |-> FALSE]

\* The state of an InlineLinkUI that is not rendered.
Unmounted ==
    [nextLinkValue |-> UndefinedObject, isEditingLink |-> FALSE,
     internalInputValue |-> <<>>, internalTextValue |-> <<>>]

\* ------------------------------------------- inputs of the boundary locator
\* Two separately constructed link instances with identical attributes, and
\* a bold instance.
LinkAttributes == [NoAttributes EXCEPT !.url = <<"u">>]
Link1 == [ref |-> 1, type |-> LINK, attributes |-> LinkAttributes]
Link2 == [ref |-> 2, type |-> LINK, attributes |-> LinkAttributes]
Bold1 == [ref |-> 3, type |-> BOLD, attributes |-> NoAttributes]

\* The per-character format lists of the inputs: nothing, one format, or a
\* link stacked with bold in either order.
FormatLists ==
    { <<>>, <<Link1>>, <<Link2>>, <<Bold1>>,
      <<Link1, Bold1>>, <<Bold1, Link1>> }

SeqsUpTo(S, n) == UNION { [1..k -> S] : k \in 0..n }

BoundaryValues ==
    { [text |-> [i \in 1..Len(fs) |-> "a"], formats |-> fs,
       start |-> s, end |-> e, activeFormats |-> <<>>] :
        fs \in SeqsUpTo(FormatLists, MaxLen), s \in 0..MaxLen, e \in 0..MaxLen }

InitBoundary ==
    /\ NoControl
    /\ NoPageList
    /\ value \in { v \in BoundaryValues :
                      v.start <= v.end /\ v.end <= Len(v.text) }
    /\ pc = "idle"
    /\ startIndex = 0
    /\ endIndex = 0
    /\ boundary = NullBoundary
    /\ reboundary = NullBoundary
    /\ addingLink = FALSE
    /\ nextLinkValue = Unmounted.nextLinkValue
    /\ isEditingLink = Unmounted.isEditingLink
    /\ internalInputValue = Unmounted.internalInputValue
    /\ internalTextValue = Unmounted.internalTextValue
    /\ commits = 0
    /\ last = NoCall("init", value)

\* getFormatBoundary( value, { type: 'core/link' } ): the default arguments.
Locate ==
    /\ pc = "idle"
    /\ pc' = "located"
    /\ startIndex' = value.start
    /\ endIndex' = value.end
    /\ boundary' = getFormatBoundary(value, LINK, value.start, value.end)
    /\ UNCHANGED <<value, reboundary, linkVars, controlVars, pageVars>>

\* getFormatBoundary( value, { type: 'core/link' }, s, e ): explicit indices,
\* up to one past the end of the text.
LocateAt(s, e) ==
    /\ pc = "idle"
    /\ pc' = "located"
    /\ startIndex' = s
    /\ endIndex' = e
    /\ boundary' = getFormatBoundary(value, LINK, s, e)
    /\ UNCHANGED <<value, reboundary, linkVars, controlVars, pageVars>>

\* getFormatBoundary( value, format, boundary.start, boundary.end ).
LocateAgain ==
    /\ pc = "located"
    /\ boundary # NullBoundary
    /\ pc' = "relocated"
    /\ reboundary' = getFormatBoundary(value, LINK, boundary.start, boundary.end)
    /\ UNCHANGED <<value, startIndex, endIndex, boundary, linkVars, controlVars, pageVars>>

NextBoundary ==
    \/ Locate
    \/ \E s \in 0..(Len(value.text) + 1), e \in 0..(Len(value.text) + 1) :
          s <= e /\ LocateAt(s, e)
    \/ LocateAgain

SpecBoundary == InitBoundary /\ [][NextBoundary]_vars

\* ================================================= the link edit controller
\* Bounds of the controller's runs.
MaxText == 2
MaxCommits == 1

\* The identity of the next format instance createLinkFormat makes.
NewRef == 10 + commits

\* InlineLinkUI is rendered while addingLink or isActive.
MountedWith(v, adding) == adding \/ isActiveOf(v)
Mounted == MountedWith(value, addingLink)

\* onChangeLink( payload ) on the value v with the pending settings: the new
\* value, addingLink and pending settings, and the calls it made.
onChangeLink(op, v, adding, pending, payload, ref) ==
    LET linkValue == linkValueOf(v, pending)
        nextValue == mergeNextValue(pending, payload)
        toggled == didToggleSetting(linkValue, nextValue)
        forNewLink == didToggleSettingForNewLink(linkValue, nextValue)
        newUrl == prependHTTP(nextValue.url)
        linkFormat == linkFormatOf(nextValue, newUrl, ref)
        newText == newTextOf(nextValue, newUrl)
        committed ==
            IF isCollapsed(v) /\ ~ isActiveOf(v)
            THEN insertNewLink(v, newText, linkFormat)
            ELSE replaceLinkText(v, newText, linkFormat)
        seen == [NoCall(op, v) EXCEPT
                    !.called = "onChangeLink", !.payload = payload,
                    !.nextValue = nextValue, !.linkValue = linkValue,
                    !.pending = pending, !.wasActive = isActiveOf(v),
                    !.wasAdding = adding, !.toggled = toggled,
                    !.deferred = forNewLink]
    IN  IF forNewLink
        THEN \* held in state until the link is ready to be applied
             [value |-> v, addingLink |-> adding, nextLinkValue |-> nextValue,
              last |-> seen]
        ELSE IF newText = Undefined
        THEN \* newText.length of undefined: a TypeError ends the handler
             [value |-> v, addingLink |-> adding,
              nextLinkValue |-> UndefinedObject,
              last |-> [seen EXCEPT !.threw = TRUE, !.newUrl = newUrl]]
        ELSE [value |-> committed,
              addingLink |-> IF toggled THEN adding ELSE FALSE,
              nextLinkValue |-> UndefinedObject,
              last |-> [seen EXCEPT
                          !.onChange = <<committed>>,
                          !.stopAddingLink = IF toggled THEN 0 ELSE 1,
                          !.spoken = <<announcementOf(newUrl, isActiveOf(v))>>,
                          !.linkFormat = linkFormat,
                          !.newUrl = newUrl, !.newText = newText]]

\* Mutant of removeLink: stopAddingLink is not called.
removeLink_withoutStop(op, v, adding, pending) ==
    [value |-> removeFormat(v, LINK),
     addingLink |-> adding,
     nextLinkValue |-> pending,
     last |-> [NoCall(op, v) EXCEPT
                 !.called = "removeLink", !.pending = pending,
                 !.linkValue = linkValueOf(v, pending),
                 !.wasActive = isActiveOf(v), !.wasAdding = adding,
                 !.onChange = <<removeFormat(v, LINK)>>,
                 !.spoken = <<LINK_REMOVED>>]]

\* removeLink()
removeLink(op, v, adding, pending) ==
    [value |-> removeFormat(v, LINK),
     addingLink |-> FALSE,
     nextLinkValue |-> pending,
     last |-> [NoCall(op, v) EXCEPT
                 !.called = "removeLink", !.pending = pending,
                 !.linkValue = linkValueOf(v, pending),
                 !.wasActive = isActiveOf(v), !.wasAdding = adding,
                 !.onChange = <<removeFormat(v, LINK)>>,
                 !.stopAddingLink = 1,
                 !.spoken = <<LINK_REMOVED>>]]

\* LinkControl's state when it is first rendered with the link value lv.
MountState(lv, adding) ==
    [nextLinkValue |-> UndefinedObject,
     isEditingLink |-> adding,
     internalInputValue |-> IF Truthy(lv.url) THEN lv.url ELSE <<>>,
     internalTextValue |-> IF Truthy(lv.text) THEN lv.text ELSE <<>>]

\* The effect on [ forceIsEditingLink ]: when the prop changed and differs
\* from the editing state, the editing state follows it.
ForceEditingEffect(forceBefore, force, editing) ==
    IF force # forceBefore /\ force # editing THEN force ELSE editing

\* The effect on [ value ]: a truthy value.text that differs from the text
\* input replaces it; runs when InlineLinkUI rendered again (a new linkValue).
SyncTextEffect(lv, text, rendered) ==
    IF rendered /\ Truthy(lv.text) /\ lv.text # text THEN lv.text ELSE text

\* The local state after an event: what the handlers set (pending, editing,
\* input, text), then the next render and its effects.  wasMounted and
\* forceBefore describe the render before the event.
Rendered(v, adding, pending, editing, input, text, wasMounted, forceBefore, rerendered) ==
    IF ~ MountedWith(v, adding) THEN Unmounted
    ELSE IF ~ wasMounted THEN MountState(linkValueOf(v, UndefinedObject), adding)
    ELSE [nextLinkValue |-> pending,
          isEditingLink |-> ForceEditingEffect(forceBefore, adding, editing),
          internalInputValue |-> input,
          internalTextValue |->
              SyncTextEffect(linkValueOf(v, pending), text, rerendered)]

SetLocal(state) ==
    /\ nextLinkValue' = state.nextLinkValue
    /\ isEditingLink' = state.isEditingLink
    /\ internalInputValue' = state.internalInputValue
    /\ internalTextValue' = state.internalTextValue

\* The event ran an InlineLinkUI handler with result r; LinkControl set its
\* editing state to editing.
Apply(r, editing) ==
    /\ value' = r.value
    /\ addingLink' = r.addingLink
    /\ last' = r.last
    /\ commits' = commits + Len(r.last.onChange)
    /\ SetLocal(Rendered(r.value, r.addingLink, r.nextLinkValue, editing,
                         internalInputValue, internalTextValue, TRUE,
                         addingLink, TRUE))
    /\ UNCHANGED <<boundaryVars, controlVars, pageVars>>

\* The toolbar button or shortcut: setAddingLink( true ).
AddLink ==
    /\ pc = "link"
    /\ ~ addingLink
    /\ addingLink' = TRUE
    /\ SetLocal(Rendered(value, TRUE, nextLinkValue, isEditingLink,
                         internalInputValue, internalTextValue, Mounted,
                         addingLink, TRUE))
    /\ last' = NoCall("input", value)
    /\ UNCHANGED <<value, commits, boundaryVars, controlVars, pageVars>>

\* Popover onClose: stopAddingLink().
ClosePopover ==
    /\ pc = "link"
    /\ Mounted
    /\ addingLink' = FALSE
    /\ SetLocal(Rendered(value, FALSE, nextLinkValue, isEditingLink,
                         internalInputValue, internalTextValue, TRUE,
                         addingLink, addingLink))
    /\ last' = [NoCall("close", value) EXCEPT !.stopAddingLink = 1]
    /\ UNCHANGED <<value, commits, boundaryVars, controlVars, pageVars>>

\* The URL input's onChange: setInternalInputValue.
TypeUrl(url) ==
    /\ pc = "link"
    /\ Mounted /\ isEditingLink
    /\ url # internalInputValue
    /\ internalInputValue' = url
    /\ last' = NoCall("input", value)
    /\ UNCHANGED <<value, addingLink, nextLinkValue, isEditingLink,
                   internalTextValue, commits, boundaryVars, controlVars, pageVars>>

\* The text input's onChange: setInternalTextValue (shown once a URL exists).
TypeText(text) ==
    /\ pc = "link"
    /\ Mounted /\ isEditingLink
    /\ Truthy(linkValueOf(value, nextLinkValue).url)
    /\ text # internalTextValue
    /\ internalTextValue' = text
    /\ last' = NoCall("input", value)
    /\ UNCHANGED <<value, addingLink, nextLinkValue, isEditingLink,
                   internalInputValue, commits, boundaryVars, controlVars, pageVars>>

\* The preview's edit button: setIsEditingLink( true ).
EditClick ==
    /\ pc = "link"
    /\ Mounted /\ ~ isEditingLink
    /\ isEditingLink' = TRUE
    /\ last' = NoCall("input", value)
    /\ UNCHANGED <<value, addingLink, nextLinkValue, internalInputValue,
                   internalTextValue, commits, boundaryVars, controlVars, pageVars>>

\* The settings drawer's toggle: onChange( { ...value, opensInNewTab: ! checked } ).
ToggleSetting ==
    /\ pc = "link"
    /\ Mounted
    /\ commits < MaxCommits
    /\ LET lv == linkValueOf(value, nextLinkValue)
           payload ==
               Spread(lv, [EmptyObject EXCEPT
                             !.keys = {"opensInNewTab"},
                             !.opensInNewTab =
                                 IF Truthy(lv.opensInNewTab) THEN False ELSE True])
       IN  Apply(onChangeLink("toggle", value, addingLink, nextLinkValue,
                              payload, NewRef),
                 isEditingLink)

\* Mutant of handleSubmitButton: onChange is called whether the inputs differ
\* from the value or not.
handleSubmitButton_alwaysCalls ==
    /\ pc = "link"
    /\ Mounted /\ isEditingLink
    /\ commits < MaxCommits
    /\ Apply(onChangeLink("submit", value, addingLink, nextLinkValue,
                          [EmptyObject EXCEPT
                             !.keys = {"url", "text"},
                             !.url = internalInputValue,
                             !.text = internalTextValue],
                          NewRef),
             FALSE)

\* handleSubmitButton
handleSubmitButton ==
    /\ pc = "link"
    /\ Mounted /\ isEditingLink
    /\ commits < MaxCommits
    /\ LET lv == linkValueOf(value, nextLinkValue)
           payload == [EmptyObject EXCEPT
                         !.keys = {"url", "text"},
                         !.url = internalInputValue,
                         !.text = internalTextValue]
       IN  IF internalInputValue # lv.url \/ internalTextValue # lv.text
           THEN Apply(onChangeLink("submit", value, addingLink, nextLinkValue,
                                   payload, NewRef),
                      FALSE)
           ELSE /\ isEditingLink' = FALSE
                /\ last' = NoCall("submit", value)
                /\ UNCHANGED <<value, addingLink, nextLinkValue,
                               internalInputValue, internalTextValue, commits,
                               boundaryVars, controlVars, pageVars>>

\* handleSelectSuggestion( updatedValue )
handleSelectSuggestion(updatedValue) ==
    /\ pc = "link"
    /\ Mounted /\ isEditingLink
    /\ commits < MaxCommits
    /\ Apply(onChangeLink("suggestion", value, addingLink, nextLinkValue,
                          Spread(updatedValue,
                                 [EmptyObject EXCEPT
                                    !.keys = {"text"},
                                    !.text = internalTextValue]),
                          NewRef),
             FALSE)

\* The Unlink button: onRemove, shown while not editing.
Unlink ==
    /\ pc = "link"
    /\ Mounted /\ ~ isEditingLink
    /\ commits < MaxCommits
    /\ Apply(removeLink("unlink", value, addingLink, nextLinkValue),
             isEditingLink)

\* ------------------------------------------------- inputs of the controller
\* An existing link, with all its settings.
OLD_URL == HTTP \o <<"o">>
OldLink ==
    [ref |-> 1, type |-> LINK,
     attributes |-> [url |-> OLD_URL, type |-> <<"page">>, id |-> <<"5">>,
                     target |-> BLANK, rel |-> REL]]

\* What the user may type as URL and as text, and the suggestion offered.
EXAMPLE == <<"e", ".", "c">>
UrlInputs == { <<>>, EXAMPLE }
TextInputs == { <<"n">> }
Suggestions ==
    { [EmptyObject EXCEPT
         !.keys = {"url", "title", "type", "id"},
         !.url = HTTP \o <<"s">>, !.title = <<"S">>,
         !.type = <<"post">>, !.id = <<"7">>],
      [EmptyObject EXCEPT
         !.keys = {"url", "title", "opensInNewTab"},
         !.url = HTTP \o <<"t">>, !.title = <<"T">>,
         !.opensInNewTab = True] }

\* The values the editor may hold when the link UI comes up: a text of "a"s,
\* at most one link run, bold on no or on the last character, any selection; the
\* active formats of a caret are those of one of its two sides, the active
\* formats of a selection those at its start.
LinkRuns(n) == { <<i, j>> \in (0..n) \X (0..n) : i < j }

FormatsOf(n, run, link, bold) ==
    [k \in 1..n |->
        (IF run[1] <= k - 1 /\ k - 1 < run[2] THEN <<link>> ELSE <<>>)
        \o (IF bold = k THEN <<Bold1>> ELSE <<>>)]

ControllerFormats(n) ==
    { FormatsOf(n, run, OldLink, bold) :
        run \in LinkRuns(n) \cup {<<0, 0>>}, bold \in {0, n} }

ControllerValues ==
    UNION { UNION { UNION {
        { [text |-> [k \in 1..n |-> "a"], formats |-> fs,
           start |-> s, end |-> e, activeFormats |-> af] :
            af \in IF s = e THEN {At(fs, s - 1), At(fs, s)} ELSE {At(fs, s)} } :
        <<s, e>> \in { <<s, e>> \in (0..n) \X (0..n) : s <= e } } :
        fs \in ControllerFormats(n) } : n \in 0..MaxText }

Init ==
    /\ NoControl
    /\ NoPageList
    /\ value \in ControllerValues
    /\ pc = "link"
    /\ startIndex = 0
    /\ endIndex = 0
    /\ boundary = NullBoundary
    /\ reboundary = NullBoundary
    /\ addingLink = FALSE
    /\ commits = 0
    /\ last = NoCall("init", value)
    /\ LET state == IF isActiveOf(value)
                    THEN MountState(linkValueOf(value, UndefinedObject), FALSE)
                    ELSE Unmounted
       IN  /\ nextLinkValue = state.nextLinkValue
           /\ isEditingLink = state.isEditingLink
           /\ internalInputValue = state.internalInputValue
           /\ internalTextValue = state.internalTextValue

Next ==
    \/ AddLink
    \/ ClosePopover
    \/ \E url \in UrlInputs : TypeUrl(url)
    \/ \E text \in TextInputs : TypeText(text)
    \/ EditClick
    \/ ToggleSetting
    \/ handleSubmitButton
    \/ \E updatedValue \in Suggestions : handleSelectSuggestion(updatedValue)
    \/ Unlink

Spec == Init /\ [][Next]_vars

\* ------------------------------------------------- LinkControl on its own
\* What LinkControl renders, from its value prop v, its editing state and
\* useCreatePage's isCreatingPage.
showsSpinner(creating) == creating

showsSearchInput(editing, v, creating) == (editing \/ ~ v.defined) /\ ~ creating

\* Mutant of showsLinkPreview: the editing state is not looked at.
showsLinkPreview_whileEditing(editing, v, creating) == v.defined /\ ~ creating

showsLinkPreview(editing, v, creating) == v.defined /\ ~ editing /\ ~ creating

shownUnlinkControl(onRemove, v, editing, creating) ==
    onRemove /\ v.defined /\ ~ editing /\ ~ creating

\* The value props a parent may pass: none, a value without URL, a link.
ControlValueProps ==
    { UndefinedObject,
      [EmptyObject EXCEPT !.keys = {"text"}, !.text = <<"a">>],
      [EmptyObject EXCEPT !.keys = {"url", "text", "opensInNewTab"},
                          !.url = OLD_URL, !.text = <<"a">>,
                          !.opensInNewTab = False] }

\* LinkControl's first render with the value prop v, no forceIsEditingLink.
InitControl ==
    /\ value = create(<<>>)
    /\ pc = "control"
    /\ startIndex = 0
    /\ endIndex = 0
    /\ boundary = NullBoundary
    /\ reboundary = NullBoundary
    /\ addingLink = FALSE
    /\ nextLinkValue = UndefinedObject
    /\ commits = 0
    /\ last = NoCall("init", value)
    /\ NoPageList
    /\ controlValue \in ControlValueProps
    /\ controlOnRemove \in BOOLEAN
    /\ isCreatingPage = FALSE
    /\ isEditingLink = (~ controlValue.defined \/ ~ Truthy(controlValue.url))
    /\ internalInputValue = MountState(controlValue, FALSE).internalInputValue
    /\ internalTextValue = MountState(controlValue, FALSE).internalTextValue

ControlFrame ==
    UNCHANGED <<value, boundaryVars, addingLink, nextLinkValue, commits,
                controlOnRemove, pageVars>>

\* The parent renders LinkControl with another value prop; the effect on
\* [ value ] runs.
ControlSetValue(v) ==
    /\ pc = "control"
    /\ v # controlValue
    /\ controlValue' = v
    /\ internalTextValue' = SyncTextEffect(v, internalTextValue, TRUE)
    /\ last' = NoCall("value", value)
    /\ UNCHANGED <<isEditingLink, internalInputValue, isCreatingPage>>
    /\ ControlFrame

ControlTypeUrl(url) ==
    /\ pc = "control"
    /\ showsSearchInput(isEditingLink, controlValue, isCreatingPage)
    /\ url # internalInputValue
    /\ internalInputValue' = url
    /\ last' = NoCall("input", value)
    /\ UNCHANGED <<controlValue, isEditingLink, internalTextValue, isCreatingPage>>
    /\ ControlFrame

ControlEditClick ==
    /\ pc = "control"
    /\ showsLinkPreview(isEditingLink, controlValue, isCreatingPage)
    /\ isEditingLink' = TRUE
    /\ last' = NoCall("edit", value)
    /\ UNCHANGED <<controlValue, internalInputValue, internalTextValue,
                   isCreatingPage>>
    /\ ControlFrame

\* handleSubmitButton of a LinkControl on its own.
ControlSubmit ==
    /\ pc = "control"
    /\ showsSearchInput(isEditingLink, controlValue, isCreatingPage)
    /\ isEditingLink' = FALSE
    /\ last' = [NoCall("submit", value) EXCEPT
                  !.called =
                      IF internalInputValue # controlValue.url
                         \/ internalTextValue # controlValue.text
                      THEN "onChange" ELSE "none",
                  !.payload = [EmptyObject EXCEPT
                                 !.keys = {"url", "text"},
                                 !.url = internalInputValue,
                                 !.text = internalTextValue]]
    /\ UNCHANGED <<controlValue, internalInputValue, internalTextValue,
                   isCreatingPage>>
    /\ ControlFrame

\* handleSelectSuggestion of a LinkControl on its own.
ControlSelect(updatedValue) ==
    /\ pc = "control"
    /\ showsSearchInput(isEditingLink, controlValue, isCreatingPage)
    /\ isEditingLink' = FALSE
    /\ last' = [NoCall("suggestion", value) EXCEPT
                  !.called = "onChange",
                  !.payload = Spread(updatedValue,
                                     [EmptyObject EXCEPT
                                        !.keys = {"text"},
                                        !.text = internalTextValue])]
    /\ UNCHANGED <<controlValue, internalInputValue, internalTextValue,
                   isCreatingPage>>
    /\ ControlFrame

\* The search input's create option: createPage starts.
CreatePageStart ==
    /\ pc = "control"
    /\ showsSearchInput(isEditingLink, controlValue, isCreatingPage)
    /\ isCreatingPage' = TRUE
    /\ last' = NoCall("create", value)
    /\ UNCHANGED <<controlValue, isEditingLink, internalInputValue,
                   internalTextValue>>
    /\ ControlFrame

\* createPage resolved: the new page is selected as a suggestion.
CreatePageResolve ==
    /\ pc = "control"
    /\ isCreatingPage
    /\ isCreatingPage' = FALSE
    /\ isEditingLink' = FALSE
    /\ last' = [NoCall("created", value) EXCEPT !.called = "onChange"]
    /\ UNCHANGED <<controlValue, internalInputValue, internalTextValue>>
    /\ ControlFrame

\* createPage rejected: an error message is shown.
CreatePageReject ==
    /\ pc = "control"
    /\ isCreatingPage
    /\ isCreatingPage' = FALSE
    /\ last' = NoCall("failed", value)
    /\ UNCHANGED <<controlValue, isEditingLink, internalInputValue,
                   internalTextValue>>
    /\ ControlFrame

\* The Unlink button: onRemove.
ControlUnlink ==
    /\ pc = "control"
    /\ shownUnlinkControl(controlOnRemove, controlValue, isEditingLink, isCreatingPage)
    /\ last' = [NoCall("unlink", value) EXCEPT !.called = "onRemove"]
    /\ UNCHANGED <<controlValue, isEditingLink, internalInputValue,
                   internalTextValue, isCreatingPage>>
    /\ ControlFrame

NextControl ==
    \/ \E v \in ControlValueProps : ControlSetValue(v)
    \/ \E url \in UrlInputs : ControlTypeUrl(url)
    \/ ControlEditClick
    \/ ControlSubmit
    \/ \E updatedValue \in Suggestions : ControlSelect(updatedValue)
    \/ CreatePageStart
    \/ CreatePageResolve
    \/ CreatePageReject
    \/ ControlUnlink

SpecControl == InitControl /\ [][NextControl]_vars

\* ------------------------------------------------------------ PageListEdit
\* The Edit option is shown while the page count is at most MAX_PAGE_COUNT.
MAX_PAGE_COUNT == 100

\* Fetches of the page count in flight at one time.
MaxRequests == 2

\* The page counts the server may report in X-WP-Total.
PageCounts == {MAX_PAGE_COUNT - 1, MAX_PAGE_COUNT, MAX_PAGE_COUNT + 1}

\* The array without its element at position i (1-based).
Without(array, i) == SubSeq(array, 1, i - 1) \o SubSeq(array, i + 1, Len(array))

\* The convert-to-links modal is rendered.
modalRendered == allowConvertToLinks /\ isOpen

\* PageListEdit after its first render and the effect on
\* [ isParentBlockNavigation ]: a fetch is in flight when the block has a
\* navigation parent.
InitPage ==
    /\ value = create(<<>>)
    /\ pc = "page"
    /\ startIndex = 0
    /\ endIndex = 0
    /\ boundary = NullBoundary
    /\ reboundary = NullBoundary
    /\ addingLink = FALSE
    /\ nextLinkValue = Unmounted.nextLinkValue
    /\ isEditingLink = Unmounted.isEditingLink
    /\ internalInputValue = Unmounted.internalInputValue
    /\ internalTextValue = Unmounted.internalTextValue
    /\ commits = 0
    /\ last = NoCall("init", value)
    /\ NoControl
    /\ isParentBlockNavigation \in BOOLEAN
    /\ allowConvertToLinks = FALSE
    /\ isOpen = FALSE
    /\ reported = NoReport
    /\ requests \in IF isParentBlockNavigation
                    THEN { <<count>> : count \in PageCounts }
                    ELSE { <<>> }

PageFrame == UNCHANGED <<value, boundaryVars, linkVars, controlVars>>

\* The block is moved under a core/navigation block or out of it; the effect
\* on [ isParentBlockNavigation ] runs.
ParentChanges(count) ==
    /\ pc = "page"
    /\ isParentBlockNavigation' = ~ isParentBlockNavigation
    /\ IF isParentBlockNavigation'
       THEN /\ Len(requests) < MaxRequests
            /\ requests' = Append(requests, count)
            /\ UNCHANGED allowConvertToLinks
       ELSE /\ allowConvertToLinks' = FALSE
            /\ UNCHANGED requests
    /\ UNCHANGED <<isOpen, reported>>
    /\ PageFrame

\* A fetch resolves: setAllowConvertToLinks( X-WP-Total <= MAX_PAGE_COUNT ).
ResponseResolves(i) ==
    /\ pc = "page"
    /\ i \in 1..Len(requests)
    /\ allowConvertToLinks' = (requests[i] <= MAX_PAGE_COUNT)
    /\ reported' = requests[i]
    /\ requests' = Without(requests, i)
    /\ UNCHANGED <<isParentBlockNavigation, isOpen>>
    /\ PageFrame

\* A fetch is rejected: the promise has no rejection handler.
ResponseFails(i) ==
    /\ pc = "page"
    /\ i \in 1..Len(requests)
    /\ requests' = Without(requests, i)
    /\ UNCHANGED <<isParentBlockNavigation, allowConvertToLinks, isOpen, reported>>
    /\ PageFrame

\* The Edit toolbar button, rendered while allowConvertToLinks.
openModal ==
    /\ pc = "page"
    /\ allowConvertToLinks
    /\ ~ isOpen
    /\ isOpen' = TRUE
    /\ UNCHANGED <<isParentBlockNavigation, allowConvertToLinks, reported, requests>>
    /\ PageFrame

\* The modal's onClose.
closeModal ==
    /\ pc = "page"
    /\ modalRendered
    /\ isOpen' = FALSE
    /\ UNCHANGED <<isParentBlockNavigation, allowConvertToLinks, reported, requests>>
    /\ PageFrame

NextPage ==
    \/ \E count \in PageCounts : ParentChanges(count)
    \/ \E i \in 1..MaxRequests : ResponseResolves(i)
    \/ \E i \in 1..MaxRequests : ResponseFails(i)
    \/ openModal
    \/ closeModal

SpecPage == InitPage /\ [][NextPage]_vars

\* --------------------------------------------- removeLink on its own inputs
\* removeLink() called on any value the editor may hold, with or without a
\* link format, whatever addingLink and the pending settings are.
PendingToggle ==
    [EmptyObject EXCEPT !.keys = {"opensInNewTab"}, !.opensInNewTab = True]

InitRemove ==
    /\ NoControl
    /\ NoPageList
    /\ value \in ControllerValues
    /\ pc = "remove"
    /\ startIndex = 0
    /\ endIndex = 0
    /\ boundary = NullBoundary
    /\ reboundary = NullBoundary
    /\ addingLink \in BOOLEAN
    /\ nextLinkValue \in {UndefinedObject, PendingToggle}
    /\ isEditingLink = FALSE
    /\ internalInputValue = <<>>
    /\ internalTextValue = <<>>
    /\ commits = 0
    /\ last = NoCall("init", value)

RemoveLinkCall ==
    /\ pc = "remove"
    /\ pc' = "removed"
    /\ LET r == removeLink("unlink", value, addingLink, nextLinkValue)
       IN  /\ value' = r.value
           /\ addingLink' = r.addingLink
           /\ nextLinkValue' = r.nextLinkValue
           /\ last' = r.last
           /\ commits' = commits + Len(r.last.onChange)
    /\ UNCHANGED <<startIndex, endIndex, boundary, reboundary, isEditingLink,
                   internalInputValue, internalTextValue, controlVars, pageVars>>

NextRemove == RemoveLinkCall

SpecRemove == InitRemove /\ [][NextRemove]_vars

\* ======================================================================
\* Claims about getFormatBoundary (checked under SpecBoundary)
\* ======================================================================
Called == pc \in {"located", "relocated"}

\* The link instance at the initial start index (NoFormat when none).
StartFormat == FindByType(At(value.formats, startIndex), LINK)

\* The character at index i carries the instance f, at any list position.
Carries(i, f) ==
    \E k \in 1..Len(At(value.formats, i)) : At(value.formats, i)[k].ref = f.ref

\* C1: every index of a non-null returned range carries the very format
\* instance found at the initial start index, for collapsed and non-collapsed
\* index pairs alike.
C1_EveryIndexCarriesInstance ==
    (Called /\ boundary # NullBoundary) =>
        \A i \in boundary.start..(boundary.end - 1) : Carries(i, StartFormat)

\* The run of the instance at the caret: the maximal range around index s all
\* of whose characters carry the instance.
RECURSIVE RunStart(_, _)
RunStart(s, f) == IF s > 0 /\ Carries(s - 1, f) THEN RunStart(s - 1, f) ELSE s

RECURSIVE RunEnd(_, _)
RunEnd(s, f) == IF Carries(s, f) THEN RunEnd(s + 1, f) ELSE s

\* The collapsed caret at s sits strictly inside a run of one link instance:
\* the characters on both sides of the caret carry it.
CaretInsideRun ==
    /\ startIndex = endIndex
    /\ startIndex > 0
    /\ StartFormat # NoFormat
    /\ Carries(startIndex - 1, StartFormat)

\* C2: with the caret strictly inside a contiguous run of one link instance
\* the returned range is exactly the run, also when bold is stacked on part
\* of the run and moves the link within the per-character lists.
C2_ExactRun ==
    (Called /\ CaretInsideRun) =>
        boundary = [start |-> RunStart(startIndex, StartFormat),
                    end |-> RunEnd(startIndex, StartFormat)]

\* C3: getFormatBoundary called on the range it returned for the value's own
\* selection returns that same range.
C3_Idempotent ==
    (pc = "relocated" /\ startIndex = value.start /\ endIndex = value.end) =>
        reboundary = boundary

\* C4: the result is the null range exactly when the character at the start
\* index carries no format of the target type (also at or past the end of the
\* text); otherwise both bounds are integers.
C4_NullIffNoFormatAtStart ==
    Called =>
        /\ (boundary = NullBoundary) <=>
              ~ \E k \in 1..Len(At(value.formats, startIndex)) :
                    At(value.formats, startIndex)[k].type = LINK
        /\ boundary # NullBoundary =>
              boundary.start \in Nat /\ boundary.end \in Nat

C4_Witness ==
    /\ pc = "located"
    /\ startIndex >= Len(value.text)
    /\ Len(value.text) > 0
    /\ boundary = NullBoundary

\* C5: for start <= end a non-null returned range contains the original
\* selection: start' <= start <= end <= end'.
C5_ContainsSelection ==
    (Called /\ boundary # NullBoundary /\ startIndex <= endIndex) =>
        /\ boundary.start <= startIndex
        /\ endIndex <= boundary.end

C5_Witness ==
    /\ pc = "located"
    /\ boundary # NullBoundary
    /\ startIndex < endIndex
    /\ boundary.start < startIndex

LinkAt(v, i) == FindByType(At(v.formats, i), LINK)

\* The last event called onChangeLink with a changed opensInNewTab while
\* neither the link value nor the merged value has a URL.
ToggledBeforeUrl ==
    /\ last.called = "onChangeLink"
    /\ last.linkValue.url = Undefined
    /\ last.nextValue.url = Undefined
    /\ last.linkValue.opensInNewTab # last.nextValue.opensInNewTab

\* C7: a toggle of opensInNewTab made while no URL exists only stores the
\* merged value as pending settings: no onChange (the value is unchanged), no
\* stopAddingLink (addingLink and the editing state are kept) and no
\* announcement, for the first toggle and for every later one.
C7_DeferredToggleOnlyStoresPending ==
    ToggledBeforeUrl =>
        /\ last.deferred
        /\ nextLinkValue = last.nextValue
        /\ last.onChange = <<>>
        /\ value = last.before
        /\ last.stopAddingLink = 0
        /\ addingLink = last.wasAdding
        /\ last.spoken = <<>>
        /\ ~ last.threw

\* A second consecutive toggle: pending settings existed already.
C7_Witness ==
    /\ ToggledBeforeUrl
    /\ last.pending.defined
    /\ last.pending.opensInNewTab = True
    /\ nextLinkValue.opensInNewTab = False
    /\ isEditingLink

\* The last event is a URL submission (submit button or suggestion) made
\* while pending settings were held.
SubmittedWithPending ==
    /\ last.called = "onChangeLink"
    /\ last.op \in {"submit", "suggestion"}
    /\ "opensInNewTab" \notin last.payload.keys
    /\ last.pending.defined

\* The target attribute of a link that opens in a new tab or not.
TargetOf(opensInNewTab) == IF opensInNewTab = True THEN BLANK ELSE Undefined

\* C8: the URL submission that follows toggles made before a URL existed
\* commits a link format whose new-tab setting is the one held in the pending
\* settings: the format built has it, and the value passed to onChange holds
\* the new text with that format on each of its characters.
C8_SubmissionCarriesPendingToggle ==
    SubmittedWithPending =>
        /\ Len(last.onChange) = 1
        /\ last.linkFormat.attributes.target = TargetOf(last.pending.opensInNewTab)
        /\ LET v == last.onChange[1]
               n == Len(last.newText)
           IN  \E k \in 0..(Len(v.text) - n) :
                  /\ Slice(v.text, k, k + n) = last.newText
                  /\ \A i \in k..(k + n - 1) :
                        /\ LinkAt(v, i).attributes.url = last.newUrl
                        /\ LinkAt(v, i).attributes.target
                              = TargetOf(last.pending.opensInNewTab)

C8_Witness ==
    /\ SubmittedWithPending
    /\ last.op = "submit"
    /\ last.pending.opensInNewTab = True
    /\ Len(last.newText) > 0
    /\ LinkAt(value, value.end - 1).attributes.target = BLANK

\* The last event is a text-only edit of an active link through the submit
\* button: the URL is the link's, the text is not.
TextOnlyEdit ==
    /\ last.called = "onChangeLink"
    /\ last.op = "submit"
    /\ last.wasActive
    /\ last.payload.url = last.linkValue.url
    /\ last.payload.text # last.linkValue.text
    /\ Truthy(last.payload.text)

\* C9: a text-only edit of an active link commits the new text carrying the
\* original link attributes (url, type, id, target) and speaks 'Link edited.'.
\* The place of the new text is left open here: only its attributes count.
C9_TextEditKeepsAttributes ==
    TextOnlyEdit =>
        /\ Len(last.onChange) = 1
        /\ LET v == last.onChange[1]
               old == getActiveFormat(last.before, LINK).attributes
               n == Len(last.payload.text)
           IN  \E k \in 0..(Len(v.text) - n) :
                  /\ Slice(v.text, k, k + n) = last.payload.text
                  /\ \A i \in k..(k + n - 1) :
                        /\ LinkAt(v, i) # NoFormat
                        /\ LinkAt(v, i).attributes.url = old.url
                        /\ LinkAt(v, i).attributes.type = old.type
                        /\ LinkAt(v, i).attributes.id = old.id
                        /\ LinkAt(v, i).attributes.target = old.target
        /\ last.spoken = <<LINK_EDITED>>

\* The last event submitted a URL without scheme, with no text and no title,
\* at a collapsed caret with no active link.
SubmittedBareUrl ==
    /\ last.called = "onChangeLink"
    /\ isCollapsed(last.before)
    /\ ~ last.wasActive
    /\ Truthy(last.nextValue.url)
    /\ ~ UsableHref(last.nextValue.url)
    /\ ~ Truthy(last.nextValue.text)
    /\ ~ Truthy(last.nextValue.title)

\* C10: at a collapsed caret with no active link, a submitted URL without
\* scheme, with empty text and no title, is normalized by prepending
\* "http://"; onChange is called once with the value that has the normalized
\* URL inserted at the caret as text (at the end of the text when the caret
\* lies beyond it), each of its characters carrying a link whose url is the
\* normalized URL, the rest of the value kept; 'Link inserted.' is spoken.
C10_BareUrlInsertedNormalized ==
    SubmittedBareUrl =>
        LET url == HTTP \o last.nextValue.url
            old == last.before
            caret == Min(old.start, Len(old.text))
        IN  /\ last.newUrl = url
            /\ Len(last.onChange) = 1
            /\ value = last.onChange[1]
            /\ value.text = Slice(old.text, 0, caret) \o url
                            \o Slice(old.text, caret, Len(old.text))
            /\ \A i \in caret..(caret + Len(url) - 1) :
                  /\ LinkAt(value, i) # NoFormat
                  /\ LinkAt(value, i).attributes.url = url
            /\ \A i \in 0..(Len(old.text) - 1) :
                  At(value.formats, IF i < caret THEN i ELSE i + Len(url))
                     = At(old.formats, i)
            /\ last.spoken = <<LINK_INSERTED>>

C10_Witness ==
    /\ SubmittedBareUrl
    /\ last.nextValue.url = EXAMPLE
    /\ last.before.start = 1
    /\ Len(last.before.text) = 2
    /\ value.text = <<"a">> \o HTTP \o EXAMPLE \o <<"a">>
    /\ last.spoken = <<LINK_INSERTED>>

\* The last event called onChangeLink and the call went on to onChange.
Committed == last.called = "onChangeLink" /\ Len(last.onChange) = 1

\* The change handed to onChangeLink is a change of the open-in-new-tab
\* setting alone: the payload has the link value's url and text and another
\* opensInNewTab.
PureSettingToggle ==
    /\ "opensInNewTab" \in last.payload.keys
    /\ last.payload.opensInNewTab # last.linkValue.opensInNewTab
    /\ last.payload.url = last.linkValue.url
    /\ last.payload.text = last.linkValue.text

\* C11: on every committing onChangeLink call stopAddingLink is called
\* exactly when the change is not a pure setting toggle; a text-only edit or
\* a resubmission from the submit button exits editing mode.
C11_StopAddingUnlessPureToggle ==
    Committed =>
        /\ PureSettingToggle => (last.stopAddingLink = 0 /\ addingLink = last.wasAdding)
        /\ ~ PureSettingToggle => (last.stopAddingLink = 1 /\ ~ addingLink)

\* C12: every committing onChangeLink call speaks exactly one message and a
\* deferred toggle none; the message is the validation warning whenever the
\* normalized URL fails isValidHref, whether or not a link is active, else
\* 'Link edited.' for an active link and 'Link inserted.' without one.
C12_OneAnnouncementValidityFirst ==
    /\ (last.called = "onChangeLink" /\ last.deferred) => last.spoken = <<>>
    /\ Committed =>
          last.spoken =
             << IF ~ isValidHref(last.newUrl) THEN LINK_WARNING
                ELSE IF last.wasActive THEN LINK_EDITED
                ELSE LINK_INSERTED >>

\* An active link resubmitted with an empty URL: the warning is spoken.
C12_Witness ==
    /\ Committed
    /\ last.wasActive
    /\ ~ isValidHref(last.newUrl)
    /\ last.spoken = <<LINK_WARNING>>

\* The last event committed through the replace branch: an active link or a
\* non-empty selection, with an identified range [textStart, textEnd).
ReplacedInRange ==
    /\ Committed
    /\ ~ (isCollapsed(last.before) /\ ~ last.wasActive)
    /\ textStartOf(last.before) # Null

\* The last n elements of an array.
Tail_(array, n) == Slice(array, Len(array) - n, Len(array))

\* C13: a commit on an active link or non-empty selection replaces only the
\* characters inside [textStart, textEnd): the characters before textStart and
\* after textEnd, and their formats, are in the value passed to onChange what
\* they were in the input value, also when the text occurs earlier in the value.
C13_ReplacesOnlyInsideRange ==
    ReplacedInRange =>
        LET old == last.before
            v == last.onChange[1]
            ts == textStartOf(old)
            rest == Len(old.text) - Min(textEndOf(old), Len(old.text))
        IN  /\ Slice(v.text, 0, ts) = Slice(old.text, 0, ts)
            /\ Slice(v.formats, 0, ts) = Slice(old.formats, 0, ts)
            /\ Tail_(v.text, rest) = Tail_(old.text, rest)
            /\ Tail_(v.formats, rest) = Tail_(old.formats, rest)

\* The last event called onChangeLink or removeLink at a collapsed caret for
\* which getFormatBoundary returns the null range.
CalledOnNullBoundary ==
    /\ last.called \in {"onChangeLink", "removeLink"}
    /\ isCollapsed(last.before)
    /\ getFormatBoundary(last.before, LINK, last.before.start, last.before.end)
          = NullBoundary

\* C14: with a collapsed caret and the null range, a committing onChangeLink
\* or a removeLink does not throw and passes to onChange a value whose text
\* before the caret and after the caret is the input's.
C14_NullRangeChangesOnlyAtCaret ==
    CalledOnNullBoundary =>
        /\ ~ last.threw
        /\ \A k \in 1..Len(last.onChange) :
              LET old == last.before
                  v == last.onChange[k]
                  caret == Min(old.start, Len(old.text))
              IN  /\ Slice(v.text, 0, caret) = Slice(old.text, 0, caret)
                  /\ Tail_(v.text, Len(old.text) - caret)
                        = Tail_(old.text, Len(old.text) - caret)

\* The value v holds no link format on any character.
NoLinkIn(v) == \A i \in 0..(Len(v.formats) - 1) : LinkAt(v, i) = NoFormat

\* The structure of a format list: the formats without their identity.
StructureOf(list) ==
    [k \in 1..Len(list) |-> [type |-> list[k].type, attributes |-> list[k].attributes]]

\* Two rich-text values are structurally equal.
StructurallyEqual(v, w) ==
    /\ v.text = w.text
    /\ v.start = w.start
    /\ v.end = w.end
    /\ Len(v.formats) = Len(w.formats)
    /\ \A k \in 1..Len(v.formats) : StructureOf(v.formats[k]) = StructureOf(w.formats[k])
    /\ StructureOf(v.activeFormats) = StructureOf(w.activeFormats)

\* The last event called removeLink on a value without link format.
RemovedWithoutLink == last.called = "removeLink" /\ NoLinkIn(last.before)

CalledNotDeferred == last.called = "onChangeLink" /\ ~ last.deferred

\* The value v carries the link format built by the last call on some character.
CarriesBuiltLink(v) ==
    \E i \in 0..(Len(v.formats) - 1) :
        /\ LinkAt(v, i) # NoFormat
        /\ LinkAt(v, i).attributes = last.linkFormat.attributes

\* C16: a malformed URL is never rejected: every onChangeLink call that is
\* not a deferred new-link toggle calls onChange exactly once with a value
\* carrying the link format, valid URL or not, the empty URL included, and
\* speaks one message.
C16_MalformedUrlStillCommitted ==
    CalledNotDeferred =>
        /\ ~ last.threw
        /\ Len(last.onChange) = 1
        /\ CarriesBuiltLink(last.onChange[1])
        /\ Len(last.spoken) = 1

\* C17: forceIsEditingLink (InlineLinkUI passes addingLink) controls the
\* editing state: in every state reached by prop changes, edit clicks, submits
\* and suggestion selections, once the effects have run, isEditingLink equals
\* forceIsEditingLink.
C17_ForcedEditingState == Mounted => isEditingLink = addingLink

\* C18: after a commit on an active link or a non-empty selection the value
\* passed to onChange has a collapsed selection at the end of the replaced
\* text, textStart plus the length of the new text, and an empty activeFormats
\* list, wherever the original selection was, index 0 included.
C18_CaretAtEndOfReplacedText ==
    ReplacedInRange =>
        LET v == last.onChange[1]
        IN  /\ v.start = v.end
            /\ v.end = textStartOf(last.before) + Len(last.newText)
            /\ v.activeFormats = <<>>

\* The last onChangeLink event changed both the URL and the open-in-new-tab
\* setting relative to the link value.
ChangedUrlAndSetting ==
    /\ last.called = "onChangeLink"
    /\ last.nextValue.url # last.linkValue.url
    /\ Truthy(last.nextValue.opensInNewTab) # Truthy(last.linkValue.opensInNewTab)

C20_PendingHasNoUrl ==
    /\ nextLinkValue = UndefinedObject \/ nextLinkValue.url = Undefined
    /\ "url" \in nextLinkValue.keys => nextLinkValue.url = Undefined
    /\ Committed => nextLinkValue = UndefinedObject

\* A commit made while pending settings were held: they are gone after it.
C20_Witness ==
    /\ Committed
    /\ last.pending.defined
    /\ "url" \in last.pending.keys
    /\ last.pending.opensInNewTab = True
    /\ Truthy(last.nextValue.url)
    /\ nextLinkValue = UndefinedObject

\* C21: the submit action calls onChange, with exactly the URL input and the
\* text input, if and only if the URL input differs from value.url or the text
\* input differs from value.text, and it leaves LinkControl in viewing mode
\* (isEditingLink false) in either case.
C21_SubmitCallsOnChangeIffChanged ==
    [][last'.op = "submit" =>
        LET lv == linkValueOf(value, nextLinkValue)
            changed == internalInputValue # lv.url \/ internalTextValue # lv.text
        IN  /\ (last'.called = "onChangeLink") <=> changed
            /\ last'.called \in {"onChangeLink", "none"}
            /\ changed =>
                  /\ last'.payload.keys = {"url", "text"}
                  /\ last'.payload.url = internalInputValue
                  /\ last'.payload.text = internalTextValue
            /\ ~ changed => (last'.onChange = <<>> /\ value' = value)
            /\ ~ isEditingLink']_vars

\* The submit button was pressed with the inputs as the link has them:
\* onChange was not called and the preview is shown again.
C21_Witness ==
    /\ last.op = "submit"
    /\ last.called = "none"
    /\ Mounted
    /\ ~ isEditingLink
    /\ internalInputValue = OLD_URL
    /\ internalInputValue = linkValueOf(value, nextLinkValue).url
    /\ internalTextValue = linkValueOf(value, nextLinkValue).text

\* The value prop LinkControl is rendered with.
ValueProp == linkValueOf(value, nextLinkValue)

\* C22: after every change of the value prop of a rendered LinkControl, once
\* the effects have run, internalTextValue equals value.text, an empty text
\* included.
C22_TextStateFollowsValue ==
    [][(Mounted /\ Mounted' /\ ValueProp' # ValueProp)
          => internalTextValue' = ValueProp'.text]_vars

\* C23: the URL search input and the link preview are never rendered
\* together: while a page is being created neither is rendered, otherwise
\* exactly one of them, the input when isEditingLink or the value is absent
\* and the preview when the value is present and not editing; the Unlink
\* control is never rendered while isEditingLink or while a page is created.
C23_InputAndPreviewExclusive ==
    LET input == showsSearchInput(isEditingLink, controlValue, isCreatingPage)
        preview == showsLinkPreview(isEditingLink, controlValue, isCreatingPage)
        unlink == shownUnlinkControl(controlOnRemove, controlValue,
                                     isEditingLink, isCreatingPage)
    IN  /\ ~ (input /\ preview)
        /\ isCreatingPage => (~ input /\ ~ preview)
        /\ ~ isCreatingPage =>
              /\ input # preview
              /\ input <=> (isEditingLink \/ ~ controlValue.defined)
              /\ preview <=> (controlValue.defined /\ ~ isEditingLink)
        /\ unlink => (~ isEditingLink /\ ~ isCreatingPage)

\* A page is being created while the control edits a present value: neither
\* the input nor the preview nor Unlink is rendered.
C23_Witness ==
    /\ pc = "control"
    /\ isCreatingPage
    /\ isEditingLink
    /\ controlValue.defined
    /\ controlOnRemove
    /\ ~ showsSearchInput(isEditingLink, controlValue, isCreatingPage)
    /\ ~ showsLinkPreview(isEditingLink, controlValue, isCreatingPage)

\* C24: with forceIsEditingLink bound to addingLink, after every submit or
\* suggestion selection the two mode flags agree: when LinkControl has left
\* editing mode, stopAddingLink was called and addingLink is false too, also
\* when the submitted URL and text are the link's.
C24_ModeFlagsAgreeAfterSubmit ==
    (last.op \in {"submit", "suggestion"} /\ ~ isEditingLink) => ~ addingLink

\* C25: for every index pair within 0..length of the text, collapsed or not,
\* a non-null range returned by getFormatBoundary lies within the text:
\* 0 <= start and end <= length.
C25_RangeWithinText ==
    (/\ pc = "located"
     /\ startIndex <= Len(value.text)
     /\ endIndex <= Len(value.text)
     /\ boundary # NullBoundary)
        => (0 <= boundary.start /\ boundary.end <= Len(value.text))

\* C26: under every interleaving of isParentBlockNavigation changes and fetch
\* responses the Edit option is enabled only while the block has a
\* core/navigation parent and the page count reported is at most
\* MAX_PAGE_COUNT; a response that resolves after the parent was lost does not
\* enable it; the modal is rendered only while allowConvertToLinks and isOpen.
C26_EditOnlyUnderNavigation ==
    /\ allowConvertToLinks =>
          /\ isParentBlockNavigation
          /\ reported # NoReport
          /\ reported <= MAX_PAGE_COUNT
    /\ modalRendered => (allowConvertToLinks /\ isOpen)

====
